---------------------------- MODULE Spec2Model ----------------------------
(***************************************************************************)
(* Session-state management and per-connection message protocol of the     *)
(* chat middleware: the socket manager (handshake, message, heartbeat and  *)
(* endSession handlers), the cleanup job (sweep) and the REST mirror of    *)
(* the store.  Every asynchronous handler is cut at its awaits: one action *)
(* is one store operation together with the synchronous code that follows  *)
(* it up to the next await.                                                *)
(***************************************************************************)
EXTENDS Integers, Sequences, FiniteSets, TLC

VARIABLES
    cfg,        \* env: heartbeatTimeoutSeconds, sessionCloseMinutes
    now,        \* wall clock in ms (Date.now() / new Date())
    sessions,   \* chatSession table, in creation order; a row's index is its id
    messages,   \* chatMessage table, in creation order (created_at ascending)
    conns,      \* sockets: handshake position, socket.data, rooms, outbound events
    tasks,      \* event handlers and REST requests in flight, one per event
    tick        \* the cleanup job's callback: position, `now` snapshot

vars == <<cfg, now, sessions, messages, conns, tasks, tick>>

----------------------------------------------------------------------------
(* Bounds of the model *)

MaxSessions == 2      \* rows of the chatSession table
MaxMessages == 4      \* rows of the chatMessage table
MaxEvents == 2        \* events and requests handled in a run of Spec
MaxConns == 2         \* sockets in a run of ConnectSpec
MaxVisitors == 2      \* visitor ids clients present
MaxTickErrors == 1    \* failed ticks in a run of FailSpec
MaxLogLen == 53       \* rows of the chatMessage table in HistorySpec
MaxBeats == 2         \* heartbeat events in a run of BeatSpec

(* Program constants *)

DefaultHeartbeatTimeoutSeconds == 120
DefaultSessionCloseMinutes == 15
MsPerSecond == 1000
SecondsPerMinute == 60
DefaultHistoryLimit == 100
BrainHistoryLimit == 50

Conns == DOMAIN conns             \* the sockets of the run
Visitors == 1..MaxVisitors
NoSession == 0
UnknownId == MaxSessions + 1     \* an id no session ever gets
NoConn == 0

ACTIVE == "ACTIVE"
INACTIVE == "INACTIVE"
CLOSED == "CLOSED"
USER == "USER"
BOT == "BOT"
SYSTEM == "SYSTEM"

(* The instants at which the model reads the clock: idle times of exactly    *)
(* and just over each default threshold (120 s, 15 min).                     *)
Instants == {0, 120000, 120001, 900000, 900001}

(* Configurations of Init: the defaults, and a close threshold shorter than *)
(* the inactivity timeout.                                                  *)
DefaultCfg ==
    [heartbeatTimeoutSeconds |-> DefaultHeartbeatTimeoutSeconds,
     sessionCloseMinutes |-> DefaultSessionCloseMinutes]

ShortCloseCfg ==
    [heartbeatTimeoutSeconds |-> DefaultHeartbeatTimeoutSeconds, sessionCloseMinutes |-> 1]

(* env.ts: a variable of the environment is unset, text that is no number,  *)
(* or a number                                                               *)
RawUnset == [kind |-> "unset", val |-> 0]

RawText == [kind |-> "text", val |-> 0]

RawNumber(n) == [kind |-> "number", val |-> n]

(* parseNumber: Number(value) is NaN, the module throws while it loads *)
ParseThrows(raw) == raw.kind = "text"

(* parseNumber: the fallback for an unset variable, else Number(value) *)
ParseNumber(raw, fallback) == IF raw.kind = "unset" THEN fallback ELSE raw.val

(* the env object of a process started with these two variables; when       *)
(* parseNumber throws there is no env object and nothing is started          *)
LoadEnv(h, m) ==
    IF ParseThrows(h) \/ ParseThrows(m)
    THEN [raw |-> <<h, m>>, loaded |-> FALSE]
    ELSE [raw |-> <<h, m>>, loaded |-> TRUE,
          heartbeatTimeoutSeconds |-> ParseNumber(h, DefaultHeartbeatTimeoutSeconds),
          sessionCloseMinutes |-> ParseNumber(m, DefaultSessionCloseMinutes)]

(* startCleanupJob: a task stopped at once when a value is NaN (no env      *)
(* object holds one), else the tick scheduled every minute                   *)
StartCleanupJob(env) == IF env.loaded THEN "idle" ELSE "unscheduled"

----------------------------------------------------------------------------
(* The store *)

SessionIds == 1..Len(sessions)

Exists(s) == s \in SessionIds

NewSession(v) == [visitor_id |-> v, status |-> ACTIVE, last_active_at |-> now]

(* prisma.chatSession.update({where: {id}, data}): the table after the write *)
UpdateSession(s, data) ==
    [sessions EXCEPT ![s] = [f \in DOMAIN @ |-> IF f \in DOMAIN data THEN data[f] ELSE @[f]]]

(* data: {status} of an updateMany, on one row *)
WithStatus(row, status) == [row EXCEPT !.status = status]

NewMessage(s, role, ev) == [session_id |-> s, role |-> role, ev |-> ev]

(* ids of the messages of session s, created_at ascending, at most `limit` *)
RECURSIVE TakeOf(_, _, _, _)
TakeOf(log, s, limit, i) ==
    IF i > Len(log) \/ limit = 0 THEN <<>>
    ELSE IF log[i].session_id = s THEN <<i>> \o TakeOf(log, s, limit - 1, i + 1)
    ELSE TakeOf(log, s, limit, i + 1)

GetHistory(s, limit) == TakeOf(messages, s, limit, 1)

(* GET /api/sessions/:id/messages: every message of the session, ascending *)
SessionLog(s) == TakeOf(messages, s, Len(messages), 1)

----------------------------------------------------------------------------
(* The table as a tick's `now` was read, and the rows other operations wrote *)
(* since (bookkeeping of the model, read by no action)                       *)

TickRunning == tick.pc \in {"inactive", "close"}

Scheduled == tick.pc # "unscheduled"

Audited == "pre" \in DOMAIN tick     \* SweepSpec records each tick's snapshot

Touched(S) == IF Audited THEN [tick EXCEPT !.dirty = @ \cup S] ELSE tick

Snapshot(t) == IF Audited THEN [t EXCEPT !.pre = sessions, !.dirty = {}] ELSE t

----------------------------------------------------------------------------
(* Cleanup job *)

InactiveThreshold(t) == t - cfg.heartbeatTimeoutSeconds * MsPerSecond

CloseThreshold(t) == t - cfg.sessionCloseMinutes * SecondsPerMinute * MsPerSecond

(* the status left out of the predicate *)
InactiveWhereAnyStatus(row) == row.last_active_at < InactiveThreshold(tick.now)

(* `lte` for `lt` *)
InactiveWhereInclusive(row) ==
    /\ row.status = ACTIVE
    /\ row.last_active_at <= InactiveThreshold(tick.now)

(* ACTIVE left out of the statuses that close *)
CloseWhereInactiveOnly(row) ==
    /\ row.status = INACTIVE
    /\ row.last_active_at < CloseThreshold(tick.now)

InactiveWhere(row) ==
    /\ row.status = ACTIVE
    /\ row.last_active_at < InactiveThreshold(tick.now)

CloseWhere(row) ==
    /\ row.status \in {ACTIVE, INACTIVE}
    /\ row.last_active_at < CloseThreshold(tick.now)

SweepInactive(table) ==
    [s \in DOMAIN table |->
        IF InactiveWhere(table[s]) THEN WithStatus(table[s], INACTIVE) ELSE table[s]]

SweepClose(table) ==
    [s \in DOMAIN table |->
        IF CloseWhere(table[s]) THEN WithStatus(table[s], CLOSED) ELSE table[s]]

(* the callback starts: `now` is read once *)
TickStart ==
    /\ Scheduled
    /\ ~TickRunning
    /\ tick' = Snapshot([tick EXCEPT !.pc = "inactive", !.now = now])
    /\ UNCHANGED <<cfg, now, sessions, messages, conns, tasks>>

TickInactive ==
    /\ tick.pc = "inactive"
    /\ sessions' = SweepInactive(sessions)
    /\ tick' = [tick EXCEPT !.pc = "close"]
    /\ UNCHANGED <<cfg, now, messages, conns, tasks>>

TickClose ==
    /\ tick.pc = "close"
    /\ sessions' = SweepClose(sessions)
    /\ tick' = [tick EXCEPT !.pc = "done"]
    /\ UNCHANGED <<cfg, now, messages, conns, tasks>>

(* logger.error in the catch of the tick; FailSpec counts the lines *)
Logged == "errors" \in DOMAIN tick

LogError(t) == IF Logged THEN [t EXCEPT !.errors = @ + 1] ELSE t

(* the failure reported to the sockets as well *)
TickFailNotifies ==
    /\ TickRunning
    /\ Logged => tick.errors < MaxTickErrors
    /\ tick' = LogError([tick EXCEPT !.pc = "failed"])
    /\ conns' = [c \in Conns |->
            IF conns[c].st = "ready"
            THEN [conns[c] EXCEPT !.out = Append(@, [type |-> "error", arg |-> 0])]
            ELSE conns[c]]
    /\ UNCHANGED <<cfg, now, sessions, messages, tasks>>

(* an updateMany throws: logged, the rest of the tick is skipped *)
TickFail ==
    /\ TickRunning
    /\ Logged => tick.errors < MaxTickErrors
    /\ tick' = LogError([tick EXCEPT !.pc = "failed"])
    /\ UNCHANGED <<cfg, now, sessions, messages, conns, tasks>>

ClockAdvance ==
    \E t \in Instants :
        /\ t > now
        /\ now' = t
        /\ UNCHANGED <<cfg, sessions, messages, conns, tasks, tick>>

----------------------------------------------------------------------------
(* Sockets *)

IdleConn ==
    [st |-> "idle", visitor |-> 0, req |-> NoSession, session |-> NoSession,
     sid |-> NoSession, rooms |-> {}, reg |-> FALSE, out |-> <<>>]

Connected(conn) == conn.st \notin {"idle", "gone"}

Evt(type, arg) == [type |-> type, arg |-> arg]

SessionEvt(s, status) == [type |-> "session", arg |-> s, status |-> status]

(* socket.emit *)
Emit(cs, c, ev) ==
    IF Connected(cs[c]) THEN [cs EXCEPT ![c].out = Append(@, ev)] ELSE cs

(* io.to(room).emit *)
Broadcast(cs, room, ev) ==
    [c \in Conns |->
        IF room \in cs[c].rooms THEN [cs[c] EXCEPT !.out = Append(@, ev)] ELSE cs[c]]

(* payload.sessionId ?? socket.data.sessionId *)
Resolve(c, override) == IF override # NoSession THEN override ELSE conns[c].sid

(* the ids a client may name: none, an issued one, one that does not exist *)
ClaimableIds == {NoSession} \cup SessionIds \cup {UnknownId}

----------------------------------------------------------------------------
(* handleConnection and ensureSession *)

NonClosedOf(v) ==
    {s \in SessionIds : sessions[s].visitor_id = v /\ sessions[s].status # CLOSED}

(* orderBy created_at ascending instead of descending *)
FindFirstOldest(v) ==
    IF NonClosedOf(v) = {} THEN NoSession
    ELSE CHOOSE s \in NonClosedOf(v) : \A t \in NonClosedOf(v) : s <= t

(* findFirst({where: {visitor_id, status: {not: CLOSED}}, orderBy: {created_at: 'desc'}}) *)
FindFirstNonClosed(v) ==
    IF NonClosedOf(v) = {} THEN NoSession
    ELSE CHOOSE s \in NonClosedOf(v) : \A t \in NonClosedOf(v) : t <= s

(* the handlers registered only once the handshake's awaits are over *)
BoundUnregistered(conn, s, status) ==
    [conn EXCEPT !.st = "history", !.session = s, !.sid = s, !.rooms = @ \cup {s},
                 !.out = Append(@, SessionEvt(s, status))]

(* after ensureSession returns: bind, join, register the handlers, emit `session` *)
Bound(conn, s, status) ==
    [conn EXCEPT !.st = "history", !.session = s, !.sid = s, !.rooms = @ \cup {s},
                 !.reg = TRUE, !.out = Append(@, SessionEvt(s, status))]

Connect ==
    \E c \in Conns :
        \E v \in Visitors, r \in ClaimableIds :
            /\ conns[c].st = "idle"
            /\ conns' = [conns EXCEPT ![c] =
                    [IdleConn EXCEPT !.st = IF r # NoSession THEN "findReq" ELSE "findVis",
                                     !.visitor = v, !.req = r]]
            /\ UNCHANGED <<cfg, now, sessions, messages, tasks, tick>>

FindRequested ==
    \E c \in Conns :
        LET r == conns[c].req IN
        /\ conns[c].st = "findReq"
        /\ conns' = [conns EXCEPT ![c] =
                IF Exists(r) /\ sessions[r].status # CLOSED
                THEN Bound(@, r, sessions[r].status)
                ELSE [@ EXCEPT !.st = "findVis"]]
        /\ UNCHANGED <<cfg, now, sessions, messages, tasks, tick>>

FindVisitor ==
    \E c \in Conns :
        LET s == FindFirstNonClosed(conns[c].visitor) IN
        /\ conns[c].st = "findVis"
        /\ conns' = [conns EXCEPT ![c] =
                IF s # NoSession THEN Bound(@, s, sessions[s].status)
                ELSE [@ EXCEPT !.st = "create"]]
        /\ UNCHANGED <<cfg, now, sessions, messages, tasks, tick>>

(* the create made only when the visitor still has no session not CLOSED *)
CreateSessionRechecks ==
    \E c \in Conns :
        LET s == FindFirstNonClosed(conns[c].visitor) IN
        /\ conns[c].st = "create"
        /\ Len(sessions) < MaxSessions
        /\ sessions' = IF s = NoSession THEN Append(sessions, NewSession(conns[c].visitor))
                       ELSE sessions
        /\ conns' = [conns EXCEPT ![c] =
                IF s = NoSession THEN Bound(@, Len(sessions) + 1, ACTIVE)
                ELSE Bound(@, s, sessions[s].status)]
        /\ UNCHANGED <<cfg, now, messages, tasks, tick>>

CreateSession ==
    \E c \in Conns :
        /\ conns[c].st = "create"
        /\ Len(sessions) < MaxSessions
        /\ sessions' = Append(sessions, NewSession(conns[c].visitor))
        /\ conns' = [conns EXCEPT ![c] = Bound(@, Len(sessions) + 1, ACTIVE)]
        /\ UNCHANGED <<cfg, now, messages, tasks, tick>>

LoadHistory ==
    \E c \in Conns :
        LET history == GetHistory(conns[c].session, DefaultHistoryLimit)
            sent == IF Len(history) > 0 THEN Emit(conns, c, Evt("history", Len(history)))
                    ELSE conns
        IN
        /\ conns[c].st = "history"
        /\ conns' = [sent EXCEPT ![c].st = "touch"]
        /\ UNCHANGED <<cfg, now, sessions, messages, tasks, tick>>

TouchSession ==
    \E c \in Conns :
        /\ conns[c].st = "touch"
        /\ sessions' = UpdateSession(conns[c].session, [last_active_at |-> now, status |-> ACTIVE])
        /\ tick' = Touched({conns[c].session})
        /\ conns' = [conns EXCEPT ![c].st = "ready"]
        /\ UNCHANGED <<cfg, now, messages, tasks>>

Awaiting == {"findReq", "findVis", "create", "history", "touch"}

(* the socket disconnected with its rooms kept *)
ConnectFailStaysJoined ==
    \E c \in Conns :
        /\ conns[c].st \in Awaiting
        /\ conns' = [Emit(conns, c, Evt("error", 0)) EXCEPT ![c].st = "gone"]
        /\ UNCHANGED <<cfg, now, sessions, messages, tasks, tick>>

(* an awaited store call of the handshake throws: the catch emits `error`   *)
(* and disconnects the socket, which leaves its rooms; socket.data is left  *)
(* as it is                                                                  *)
ConnectFail ==
    \E c \in Conns :
        /\ conns[c].st \in Awaiting
        /\ conns' = [Emit(conns, c, Evt("error", 0)) EXCEPT ![c].st = "gone", ![c].rooms = {}]
        /\ UNCHANGED <<cfg, now, sessions, messages, tasks, tick>>

(* the client of a socket whose handshake is over disconnects: the socket   *)
(* leaves its rooms and receives nothing more; no handler of the server     *)
(* listens for it, and the handlers in flight are left running              *)
Disconnect ==
    \E c \in Conns :
        /\ conns[c].st = "ready"
        /\ conns' = [conns EXCEPT ![c].st = "gone", ![c].rooms = {}]
        /\ UNCHANGED <<cfg, now, sessions, messages, tasks, tick>>

----------------------------------------------------------------------------
(* registerSocketEvents: message *)

FreeTask ==
    [kind |-> "none", conn |-> NoConn, sid |-> NoSession, pc |-> "free", hist |-> <<>>,
     reply |-> "none", content |-> "none"]

NewTask(kind, c, s, pc) == [FreeTask EXCEPT !.kind = kind, !.conn = c, !.sid = s, !.pc = pc]

FreeSlots == {e \in DOMAIN tasks : tasks[e].pc = "free"}

(* events are numbered in the order they arrive *)
NextSlot == CHOOSE e \in FreeSlots : \A f \in FreeSlots : e <= f

Started(kind, c, s, pc) == [tasks EXCEPT ![NextSlot] = NewTask(kind, c, s, pc)]

Listening(c) == Connected(conns[c]) /\ conns[c].reg

(* the synchronous head of the handler: resolve the id, trim the content *)
MessageEvent ==
    \E c \in Conns :
        \E o \in ClaimableIds, empty \in BOOLEAN :
            LET s == Resolve(c, o)
                content == IF empty THEN "empty" ELSE "text"
            IN
            /\ Listening(c)
            /\ FreeSlots # {}
            /\ IF s = NoSession
               THEN /\ conns' = Emit(conns, c, Evt("error", 0))
                    /\ tasks' = [Started("msg", c, s, "noid") EXCEPT ![NextSlot].content = content]
               ELSE /\ conns' = conns
                    /\ tasks' = [Started("msg", c, s, IF empty THEN "dropped" ELSE "find")
                                    EXCEPT ![NextSlot].content = content]
            /\ UNCHANGED <<cfg, now, sessions, messages, tick>>

(* the status sent to the room of the session instead of the socket *)
MsgFindBroadcastsStatus ==
    \E e \in DOMAIN tasks :
        LET t == tasks[e] IN
        /\ t.kind = "msg" /\ t.pc = "find"
        /\ IF ~Exists(t.sid) \/ sessions[t.sid].status = CLOSED
           THEN /\ conns' = Broadcast(conns, t.sid, Evt("status", 0))
                /\ tasks' = [tasks EXCEPT ![e].pc = "rejected"]
           ELSE /\ conns' = conns
                /\ tasks' = [tasks EXCEPT ![e].pc = "user"]
        /\ UNCHANGED <<cfg, now, sessions, messages, tick>>

MsgFind ==
    \E e \in DOMAIN tasks :
        LET t == tasks[e] IN
        /\ t.kind = "msg" /\ t.pc = "find"
        /\ IF ~Exists(t.sid) \/ sessions[t.sid].status = CLOSED
           THEN /\ conns' = Emit(conns, t.conn, Evt("status", 0))
                /\ tasks' = [tasks EXCEPT ![e].pc = "rejected"]
           ELSE /\ conns' = conns
                /\ tasks' = [tasks EXCEPT ![e].pc = "user"]
        /\ UNCHANGED <<cfg, now, sessions, messages, tick>>

(* the USER message echoed to the sending socket alone *)
MsgUserEchoesSender ==
    \E e \in DOMAIN tasks :
        LET t == tasks[e] IN
        /\ t.kind = "msg" /\ t.pc = "user"
        /\ Len(messages) < MaxMessages
        /\ messages' = Append(messages, NewMessage(t.sid, USER, e))
        /\ conns' = Emit(conns, t.conn, Evt("message", Len(messages) + 1))
        /\ tasks' = [tasks EXCEPT ![e].pc = "update"]
        /\ UNCHANGED <<cfg, now, sessions, tick>>

MsgUser ==
    \E e \in DOMAIN tasks :
        LET t == tasks[e] IN
        /\ t.kind = "msg" /\ t.pc = "user"
        /\ Len(messages) < MaxMessages
        /\ messages' = Append(messages, NewMessage(t.sid, USER, e))
        /\ conns' = Broadcast(conns, t.sid, Evt("message", Len(messages) + 1))
        /\ tasks' = [tasks EXCEPT ![e].pc = "update"]
        /\ UNCHANGED <<cfg, now, sessions, tick>>

MsgUpdate ==
    \E e \in DOMAIN tasks :
        LET t == tasks[e] IN
        /\ t.kind = "msg" /\ t.pc = "update"
        /\ sessions' = UpdateSession(t.sid, [last_active_at |-> now, status |-> ACTIVE])
        /\ tick' = Touched({t.sid})
        /\ tasks' = [tasks EXCEPT ![e].pc = "history"]
        /\ UNCHANGED <<cfg, now, messages, conns>>

MsgHistory ==
    \E e \in DOMAIN tasks :
        LET t == tasks[e] IN
        /\ t.kind = "msg" /\ t.pc = "history"
        /\ tasks' = [tasks EXCEPT ![e].pc = "brain", ![e].hist = GetHistory(t.sid, BrainHistoryLimit)]
        /\ UNCHANGED <<cfg, now, sessions, messages, conns, tick>>

(* What axios.post yields: it throws (timeout, network error, status not    *)
(* 2xx), or response.data is a string, or an object whose fields output,    *)
(* text and message are each absent (undefined or null), a string, or a     *)
(* value that is no string (a number).                                      *)
FieldKinds == {"absent", "string", "number"}

Thrown ==
    [thrown |-> TRUE, type |-> "none", output |-> "absent", text |-> "absent",
     message |-> "absent"]

StringBody ==
    [thrown |-> FALSE, type |-> "string", output |-> "absent", text |-> "absent",
     message |-> "absent"]

ObjectBody(o, t, m) ==
    [thrown |-> FALSE, type |-> "object", output |-> o, text |-> t, message |-> m]

Responses ==
    {Thrown, StringBody} \cup {ObjectBody(o, t, m) : o \in FieldKinds, t \in FieldKinds, m \in FieldKinds}

(* data?.output ?? data?.text ?? data?.message ??                           *)
(*     (typeof data === 'string' ? data : JSON.stringify(data))             *)
Output(r) ==
    IF r.output # "absent" THEN r.output
    ELSE IF r.text # "absent" THEN r.text
    ELSE IF r.message # "absent" THEN r.message
    ELSE "string"

(* sendToN8n: what the handler gets as aiReply: the apology when the call   *)
(* threw, else the output, a string ("reply") or not ("number")             *)
SendToN8n(r) ==
    IF r.thrown THEN "apology"
    ELSE IF Output(r) = "string" THEN "reply" ELSE "number"

(* await sendToN8n, then aiReply.substring(0, 100): a TypeError when aiReply *)
(* is no string, caught by the handler's catch, which emits `error`          *)
(* the responder's result dropped when the sending socket is gone *)
MsgBrainDroppedWhenGone ==
    \E e \in DOMAIN tasks :
        \E r \in Responses :
            LET aiReply == SendToN8n(r) IN
            /\ tasks[e].kind = "msg" /\ tasks[e].pc = "brain"
            /\ IF aiReply = "number" \/ ~Connected(conns[tasks[e].conn])
               THEN /\ tasks' = [tasks EXCEPT ![e].pc = "failed", ![e].reply = aiReply]
                    /\ conns' = Emit(conns, tasks[e].conn, Evt("error", 0))
               ELSE /\ tasks' = [tasks EXCEPT ![e].pc = "bot", ![e].reply = aiReply]
                    /\ conns' = conns
            /\ UNCHANGED <<cfg, now, sessions, messages, tick>>

MsgBrain ==
    \E e \in DOMAIN tasks :
        \E r \in Responses :
            LET aiReply == SendToN8n(r) IN
            /\ tasks[e].kind = "msg" /\ tasks[e].pc = "brain"
            /\ IF aiReply = "number"
               THEN /\ tasks' = [tasks EXCEPT ![e].pc = "failed", ![e].reply = aiReply]
                    /\ conns' = Emit(conns, tasks[e].conn, Evt("error", 0))
               ELSE /\ tasks' = [tasks EXCEPT ![e].pc = "bot", ![e].reply = aiReply]
                    /\ conns' = conns
            /\ UNCHANGED <<cfg, now, sessions, messages, tick>>

(* the BOT message broadcast without being saved *)
MsgBotUnsaved ==
    \E e \in DOMAIN tasks :
        LET t == tasks[e] IN
        /\ t.kind = "msg" /\ t.pc = "bot"
        /\ conns' = Broadcast(conns, t.sid, Evt("message", Len(messages) + 1))
        /\ tasks' = [tasks EXCEPT ![e].pc = "done"]
        /\ UNCHANGED <<cfg, now, sessions, messages, tick>>

MsgBot ==
    \E e \in DOMAIN tasks :
        LET t == tasks[e] IN
        /\ t.kind = "msg" /\ t.pc = "bot"
        /\ Len(messages) < MaxMessages
        /\ messages' = Append(messages, NewMessage(t.sid, BOT, e))
        /\ conns' = Broadcast(conns, t.sid, Evt("message", Len(messages) + 1))
        /\ tasks' = [tasks EXCEPT ![e].pc = "done"]
        /\ UNCHANGED <<cfg, now, sessions, tick>>

----------------------------------------------------------------------------
(* registerSocketEvents: heartbeat, endSession *)

(* BeatSpec keeps count of the heartbeat events handled and of the warnings *)
(* logged, and the id and outcome of the last one                            *)
Counted == "beats" \in DOMAIN tick

NoBeat == [conn |-> NoConn, sid |-> NoSession, failed |-> FALSE]

Heard(t, c, s, failed) ==
    IF Counted
    THEN [t EXCEPT !.beats = @ + 1, !.warns = IF failed THEN @ + 1 ELSE @,
                   !.beat = [conn |-> c, sid |-> s, failed |-> failed]]
    ELSE t

(* last_active_at refreshed, the status left as it is *)
HeartbeatKeepsStatus ==
    \E c \in Conns :
        \E o \in ClaimableIds, throws \in BOOLEAN :
            LET s == Resolve(c, o) IN
            /\ Listening(c)
            /\ Counted => tick.beats < MaxBeats
            /\ IF s = NoSession
               THEN /\ sessions' = sessions
                    /\ tick' = Heard(tick, c, s, FALSE)
               ELSE IF Exists(s) /\ ~throws
               THEN /\ sessions' = UpdateSession(s, [last_active_at |-> now])
                    /\ tick' = Heard(Touched({s}), c, s, FALSE)
               ELSE /\ sessions' = sessions
                    /\ tick' = Heard(tick, c, s, TRUE)
            /\ UNCHANGED <<cfg, now, messages, conns, tasks>>

(* the handler returns when no id resolves; else it awaits the update, and  *)
(* when that throws (no such row, or the store is down) the catch logs a    *)
(* warning                                                                   *)
HeartbeatEvent ==
    \E c \in Conns :
        \E o \in ClaimableIds, throws \in BOOLEAN :
            LET s == Resolve(c, o) IN
            /\ Listening(c)
            /\ Counted => tick.beats < MaxBeats
            /\ IF s = NoSession
               THEN /\ sessions' = sessions
                    /\ tick' = Heard(tick, c, s, FALSE)
               ELSE IF Exists(s) /\ ~throws
               THEN /\ sessions' = UpdateSession(s, [last_active_at |-> now, status |-> ACTIVE])
                    /\ tick' = Heard(Touched({s}), c, s, FALSE)
               ELSE /\ sessions' = sessions
                    /\ tick' = Heard(tick, c, s, TRUE)
            /\ UNCHANGED <<cfg, now, messages, conns, tasks>>

(* an event with no resolvable id answered with `error`, as a message is *)
EndSessionEventReportsNoId ==
    \E c \in Conns :
        \E o \in ClaimableIds :
            LET s == Resolve(c, o) IN
            /\ Listening(c)
            /\ FreeSlots # {}
            /\ tasks' = Started("end", c, s, IF s = NoSession THEN "noid" ELSE "close")
            /\ conns' = IF s = NoSession THEN Emit(conns, c, Evt("error", 0)) ELSE conns
            /\ UNCHANGED <<cfg, now, sessions, messages, tick>>

(* the synchronous head of the handler: resolve the id, return when there   *)
(* is none                                                                   *)
EndSessionEvent ==
    \E c \in Conns :
        \E o \in ClaimableIds :
            LET s == Resolve(c, o) IN
            /\ Listening(c)
            /\ FreeSlots # {}
            /\ tasks' = Started("end", c, s, IF s = NoSession THEN "noid" ELSE "close")
            /\ UNCHANGED <<cfg, now, sessions, messages, conns, tick>>

EndClose ==
    \E e \in DOMAIN tasks :
        LET t == tasks[e] IN
        /\ t.kind = "end" /\ t.pc = "close"
        /\ IF Exists(t.sid)
           THEN /\ sessions' = UpdateSession(t.sid, [status |-> CLOSED, last_active_at |-> now])
                /\ tick' = Touched({t.sid})
                /\ tasks' = [tasks EXCEPT ![e].pc = "system"]
                /\ conns' = conns
           ELSE /\ conns' = Emit(conns, t.conn, Evt("error", 0))     \* update throws
                /\ tasks' = [tasks EXCEPT ![e].pc = "failed"]
                /\ UNCHANGED <<sessions, tick>>
        /\ UNCHANGED <<cfg, now, messages>>

EndSystem ==
    \E e \in DOMAIN tasks :
        LET t == tasks[e]
            told == Emit(conns, t.conn, Evt("sessionClosed", t.sid))
        IN
        /\ t.kind = "end" /\ t.pc = "system"
        /\ Len(messages) < MaxMessages
        /\ messages' = Append(messages, NewMessage(t.sid, SYSTEM, e))
        /\ conns' = [told EXCEPT ![t.conn].rooms = @ \ {t.sid}, ![t.conn].sid = NoSession]
        /\ tasks' = [tasks EXCEPT ![e].pc = "done"]
        /\ UNCHANGED <<cfg, now, sessions, tick>>

----------------------------------------------------------------------------
(* REST mirror of the store *)

RestCreateSession ==
    \E v \in Visitors :
        /\ Len(sessions) < MaxSessions
        /\ sessions' = Append(sessions, NewSession(v))
        /\ UNCHANGED <<cfg, now, messages, conns, tasks, tick>>

RestHeartbeat ==
    \E s \in SessionIds :
        /\ sessions' = UpdateSession(s, [last_active_at |-> now])
        /\ tick' = Touched({s})
        /\ UNCHANGED <<cfg, now, messages, conns, tasks>>

RestClose ==
    \E s \in SessionIds :
        /\ sessions' = UpdateSession(s, [status |-> CLOSED])
        /\ tick' = Touched({s})
        /\ UNCHANGED <<cfg, now, messages, conns, tasks>>

(* POST /api/sessions/:id/messages: findUnique, then create, then update *)
RestPostMessage ==
    \E s \in SessionIds :
        /\ FreeSlots # {}
        /\ tasks' = Started("rest", NoConn, s, "user")
        /\ UNCHANGED <<cfg, now, sessions, messages, conns, tick>>

(* the posted message stored with role BOT *)
RestPostCreateAsBot ==
    \E e \in DOMAIN tasks :
        LET t == tasks[e] IN
        /\ t.kind = "rest" /\ t.pc = "user"
        /\ Len(messages) < MaxMessages
        /\ messages' = Append(messages, NewMessage(t.sid, BOT, e))
        /\ tasks' = [tasks EXCEPT ![e].pc = "update"]
        /\ UNCHANGED <<cfg, now, sessions, conns, tick>>

RestPostCreate ==
    \E e \in DOMAIN tasks :
        LET t == tasks[e] IN
        /\ t.kind = "rest" /\ t.pc = "user"
        /\ Len(messages) < MaxMessages
        /\ messages' = Append(messages, NewMessage(t.sid, USER, e))
        /\ tasks' = [tasks EXCEPT ![e].pc = "update"]
        /\ UNCHANGED <<cfg, now, sessions, conns, tick>>

RestPostUpdate ==
    \E e \in DOMAIN tasks :
        LET t == tasks[e] IN
        /\ t.kind = "rest" /\ t.pc = "update"
        /\ sessions' = UpdateSession(t.sid, [last_active_at |-> now])
        /\ tick' = Touched({t.sid})
        /\ tasks' = [tasks EXCEPT ![e].pc = "done"]
        /\ UNCHANGED <<cfg, now, messages, conns>>

----------------------------------------------------------------------------

(* The state after start-up: an empty store, `sockets` sockets not yet      *)
(* connected, room for `events` events.                                     *)
InitStore(sockets, events) ==
    /\ now = 0
    /\ sessions = <<>>
    /\ messages = <<>>
    /\ conns = [c \in 1..sockets |-> IdleConn]
    /\ tasks = [e \in 1..events |-> FreeTask]

(* The clock as the protocol's runs sample it: time enough for a session to *)
(* be idle past the inactivity timeout and the close threshold.             *)
ClockJump ==
    \E t \in {900001} :
        /\ t > now
        /\ now' = t
        /\ UNCHANGED <<cfg, sessions, messages, conns, tasks, tick>>

Init ==
    /\ cfg = DefaultCfg
    /\ InitStore(1, MaxEvents)
    /\ tick = [pc |-> "idle", now |-> 0]

Next ==
    \/ ClockJump
    \/ TickStart
    \/ TickInactive
    \/ TickClose
    \/ RestClose
    \/ Connect
    \/ FindRequested
    \/ FindVisitor
    \/ CreateSession
    \/ LoadHistory
    \/ TouchSession
    \/ MessageEvent
    \/ MsgFind
    \/ MsgUser
    \/ MsgUpdate
    \/ MsgHistory
    \/ MsgBrain
    \/ MsgBot
    \/ HeartbeatEvent
    \/ EndSessionEvent
    \/ EndClose
    \/ EndSystem

Spec == Init /\ [][Next]_vars

ConnectInit ==
    /\ cfg = DefaultCfg
    /\ InitStore(MaxConns, 1)
    /\ tick = [pc |-> "idle", now |-> 0]

ConnectNext ==
    \/ RestCreateSession
    \/ RestClose
    \/ Connect
    \/ FindRequested
    \/ FindVisitor
    \/ CreateSession
    \/ LoadHistory
    \/ TouchSession
    \/ MessageEvent
    \/ MsgFind
    \/ MsgUser
    \/ MsgUpdate
    \/ MsgHistory
    \/ MsgBrain
    \/ MsgBot

ConnectSpec == ConnectInit /\ [][ConnectNext]_vars

SweepInit ==
    /\ cfg \in {DefaultCfg, ShortCloseCfg}
    /\ InitStore(0, 0)
    /\ tick = [pc |-> "idle", now |-> 0, pre |-> <<>>, dirty |-> {}]

SweepNext ==
    \/ ClockAdvance
    \/ TickStart
    \/ TickInactive
    \/ TickClose
    \/ TickFail
    \/ RestCreateSession
    \/ RestHeartbeat
    \/ RestClose

SweepSpec == SweepInit /\ [][SweepNext]_vars

(* getHistory(sessionId, 50) of a message handler, on tables of up to       *)
(* MaxLogLen rows: the handler of event 1 on socket 1 has just persisted    *)
(* its USER message, the last row; every `stride`-th row before it belongs  *)
(* to another session.                                                      *)
LogOf(n, stride) ==
    [i \in 1..n |->
        IF i = n THEN NewMessage(1, USER, 1)
        ELSE NewMessage(IF stride > 0 /\ i % stride = 0 THEN 2 ELSE 1,
                        IF i % 2 = 1 THEN USER ELSE BOT, 0)]

HistoryInit ==
    /\ cfg = DefaultCfg
    /\ now = 0
    /\ sessions = <<NewSession(1), NewSession(2)>>
    /\ \E n \in 1..MaxLogLen, stride \in {0, 2, 3} : messages = LogOf(n, stride)
    /\ conns = <<[Bound(IdleConn, 1, ACTIVE) EXCEPT !.st = "ready", !.visitor = 1]>>
    /\ tasks = <<[NewTask("msg", 1, 1, "history") EXCEPT !.content = "text"]>>
    /\ tick = [pc |-> "idle", now |-> 0]

HistoryNext ==
    \/ MsgHistory
    \/ MsgBrain

HistorySpec == HistoryInit /\ [][HistoryNext]_vars

(* The heartbeats and endSession events of one socket beside the sweep,    *)
(* with time enough for the sweep to mark its session INACTIVE and to close *)
(* it.                                                                      *)
BeatInit ==
    /\ cfg = DefaultCfg
    /\ InitStore(1, MaxEvents)
    /\ tick = [pc |-> "idle", now |-> 0, beats |-> 0, warns |-> 0, beat |-> NoBeat]

BeatNext ==
    \/ ClockJump
    \/ TickStart
    \/ TickInactive
    \/ TickClose
    \/ Connect
    \/ FindRequested
    \/ FindVisitor
    \/ CreateSession
    \/ LoadHistory
    \/ TouchSession
    \/ HeartbeatEvent
    \/ EndSessionEvent
    \/ EndClose
    \/ EndSystem

BeatSpec == BeatInit /\ [][BeatNext]_vars

(* The store failing: the sweep, the handshake and the heartbeats of one    *)
(* socket, each store call of which may throw.                              *)
FailInit ==
    /\ cfg = DefaultCfg
    /\ InitStore(1, 0)
    /\ tick = [pc |-> "idle", now |-> 0, errors |-> 0]

FailNext ==
    \/ ClockAdvance
    \/ TickStart
    \/ TickInactive
    \/ TickClose
    \/ TickFail
    \/ RestCreateSession
    \/ Connect
    \/ FindRequested
    \/ FindVisitor
    \/ CreateSession
    \/ LoadHistory
    \/ TouchSession
    \/ ConnectFail
    \/ HeartbeatEvent

FailSpec == FailInit /\ [][FailNext]_vars

(* One socket that sends one message event and may disconnect at any time  *)
(* after its handshake, while the session may be closed over REST.  The     *)
(* responder's call returns (axios times out after 60 s) and the store      *)
(* answers the create that follows it.                                      *)
DisconnectInit ==
    /\ cfg = DefaultCfg
    /\ InitStore(1, 1)
    /\ tick = [pc |-> "unscheduled", now |-> 0]

DisconnectNext ==
    \/ RestClose
    \/ Connect
    \/ FindRequested
    \/ FindVisitor
    \/ CreateSession
    \/ LoadHistory
    \/ TouchSession
    \/ Disconnect
    \/ MessageEvent
    \/ MsgFind
    \/ MsgUser
    \/ MsgUpdate
    \/ MsgHistory
    \/ MsgBrain
    \/ MsgBot

DisconnectSpec ==
    DisconnectInit /\ [][DisconnectNext]_vars /\ WF_vars(MsgBrain) /\ WF_vars(MsgBot)

(* The handshakes of the sockets alone: sessions are created by             *)
(* ensureSession only and none is closed.                                   *)
RaceInit ==
    /\ cfg = DefaultCfg
    /\ InitStore(MaxConns, 0)
    /\ tick = [pc |-> "unscheduled", now |-> 0]

RaceNext ==
    \/ Connect
    \/ FindRequested
    \/ FindVisitor
    \/ CreateSession
    \/ LoadHistory
    \/ TouchSession

RaceSpec == RaceInit /\ [][RaceNext]_vars

(* One socket that sends one endSession event, naming any session it may,  *)
(* beside sessions created over REST.                                       *)
UnbindInit ==
    /\ cfg = DefaultCfg
    /\ InitStore(1, 1)
    /\ tick = [pc |-> "unscheduled", now |-> 0]

UnbindNext ==
    \/ RestCreateSession
    \/ Connect
    \/ FindRequested
    \/ FindVisitor
    \/ CreateSession
    \/ LoadHistory
    \/ TouchSession
    \/ EndSessionEvent
    \/ EndClose
    \/ EndSystem

UnbindSpec == UnbindInit /\ [][UnbindNext]_vars

(* Every writer of the message log: the message and endSession events of   *)
(* one socket and the messages posted over REST, with the session closed    *)
(* over REST at any time.                                                   *)
LogInit ==
    /\ cfg = DefaultCfg
    /\ InitStore(1, MaxEvents)
    /\ tick = [pc |-> "unscheduled", now |-> 0]

LogNext ==
    \/ RestClose
    \/ RestPostMessage
    \/ RestPostCreate
    \/ RestPostUpdate
    \/ Connect
    \/ FindRequested
    \/ FindVisitor
    \/ CreateSession
    \/ LoadHistory
    \/ TouchSession
    \/ MessageEvent
    \/ MsgFind
    \/ MsgUser
    \/ MsgUpdate
    \/ MsgHistory
    \/ MsgBrain
    \/ MsgBot
    \/ EndSessionEvent
    \/ EndClose
    \/ EndSystem

LogSpec == LogInit /\ [][LogNext]_vars

(* The cleanup job of a process started with HEARTBEAT_TIMEOUT_SECONDS and  *)
(* SESSION_CLOSE_MINUTES unset, not numeric, negative, or a valid number.   *)
RawValues == {RawUnset, RawText, RawNumber(-1), RawNumber(1)}

ConfigInit ==
    /\ \E h, m \in RawValues : cfg = LoadEnv(h, m)
    /\ InitStore(0, 0)
    /\ tick = [pc |-> StartCleanupJob(cfg), now |-> 0]

ConfigSpec == ConfigInit /\ [][SweepNext]_vars

----------------------------------------------------------------------------
(* Claims about the message protocol (Spec) *)

(* C1: once a session's stored status is CLOSED, no operation changes its   *)
(* status or its last-activity timestamp.                                   *)
ClosedIsTerminal ==
    [][\A s \in DOMAIN sessions :
          sessions[s].status = CLOSED =>
              /\ sessions'[s].status = CLOSED
              /\ sessions'[s].last_active_at = sessions[s].last_active_at]_vars

(* C2: the session update of a message handler that read its session as     *)
(* non-CLOSED leaves a session closed in the meantime as it is: CLOSED, with *)
(* its last-activity.                                                        *)
StaleUpdateKeepsClosed ==
    [][\A e \in DOMAIN tasks :
          (/\ tasks[e].kind = "msg"
           /\ tasks[e].pc = "update"
           /\ tasks'[e].pc # "update"
           /\ sessions[tasks[e].sid].status = CLOSED)
          => sessions'[tasks[e].sid] = sessions[tasks[e].sid]]_vars

(* C3: no USER or BOT message is persisted into a session whose stored       *)
(* status is CLOSED at the moment the message is persisted.                  *)
NoContentIntoClosed ==
    [][Len(messages') > Len(messages) =>
          LET m == messages'[Len(messages')] IN
          m.role \in {USER, BOT} => sessions[m.session_id].status # CLOSED]_vars

CountOf(e, role) ==
    Cardinality({i \in DOMAIN messages : messages[i].ev = e /\ messages[i].role = role})

IndexOf(e, role) == CHOOSE i \in DOMAIN messages : messages[i].ev = e /\ messages[i].role = role

Precedes(log, i, j) == \E a, b \in DOMAIN log : a < b /\ log[a] = i /\ log[b] = j

(* C4: a message event with content, on a session found not CLOSED, persists *)
(* exactly one USER message and then exactly one BOT message for that        *)
(* session, listed in that order in the session's ascending history; before  *)
(* the handler reaches a create, the event has persisted nothing, and when   *)
(* the responder's output fails the handler, only the USER message.          *)
OneUserThenOneBot ==
    \A e \in DOMAIN tasks :
        LET t == tasks[e] IN
        t.kind = "msg" =>
            /\ t.pc \in {"noid", "dropped", "find", "rejected", "user"} =>
                    CountOf(e, USER) = 0 /\ CountOf(e, BOT) = 0
            /\ t.pc \in {"update", "history", "brain", "bot", "failed"} =>
                    CountOf(e, USER) = 1 /\ CountOf(e, BOT) = 0
            /\ t.pc = "done" =>
                    /\ CountOf(e, USER) = 1 /\ CountOf(e, BOT) = 1
                    /\ CountOf(e, SYSTEM) = 0
                    /\ messages[IndexOf(e, USER)].session_id = t.sid
                    /\ messages[IndexOf(e, BOT)].session_id = t.sid
                    /\ IndexOf(e, USER) < IndexOf(e, BOT)
                    /\ Precedes(SessionLog(t.sid), IndexOf(e, USER), IndexOf(e, BOT))

(* two message events on one session, both handled to the end, and the      *)
(* session closed meanwhile                                                  *)
HandledMessage ==
    \E e, f \in DOMAIN tasks :
        /\ e # f
        /\ tasks[e].kind = "msg" /\ tasks[e].pc = "done"
        /\ tasks[f].kind = "msg" /\ tasks[f].pc = "done"
        /\ tasks[e].sid = tasks[f].sid
        /\ sessions[tasks[e].sid].status = CLOSED

----------------------------------------------------------------------------
(* Claims about the handshake (ConnectSpec) *)

Requested(k) == k.req \in DOMAIN sessions /\ sessions[k.req].status # CLOSED

OpenOf(v) == {s \in DOMAIN sessions : sessions[s].visitor_id = v /\ sessions[s].status # CLOSED}

(* C5: a supplied id that resolves to a non-CLOSED session is the bound      *)
(* session and nothing is created; otherwise the visitor's most recently     *)
(* created non-CLOSED session is bound if there is one, and else a session   *)
(* created ACTIVE for the visitor; the session bound is not CLOSED.          *)
ResolutionReusesOrCreates ==
    [][\A c \in DOMAIN conns :
          LET k == conns[c]
              b == conns'[c]
          IN
          /\ (k.st = "findReq" /\ b.st # "findReq") =>
                /\ sessions' = sessions
                /\ IF Requested(k) THEN b.st = "history" /\ b.sid = k.req
                   ELSE b.st = "findVis" /\ b.sid = NoSession
          /\ (k.st = "findVis" /\ b.st # "findVis") =>
                /\ sessions' = sessions
                /\ IF OpenOf(k.visitor) # {}
                   THEN /\ b.st = "history"
                        /\ b.sid \in OpenOf(k.visitor)
                        /\ \A s \in OpenOf(k.visitor) : s <= b.sid
                   ELSE b.st = "create" /\ b.sid = NoSession
          /\ (k.st = "create" /\ b.st # "create") =>
                /\ b.st = "history"
                /\ b.sid = Len(sessions) + 1
                /\ sessions' = Append(sessions,
                        [visitor_id |-> k.visitor, status |-> ACTIVE, last_active_at |-> now])
          /\ (k.st # "history" /\ b.st = "history") =>
                /\ sessions'[b.sid].status # CLOSED
                /\ b.session = b.sid
                /\ b.rooms = {b.sid}]_vars

(* one socket reused the session it asked for; another asked for a CLOSED    *)
(* session and was bound to a different one                                  *)
ResolvedBothWays ==
    \E c, d \in DOMAIN conns :
        /\ conns[c].st = "ready" /\ conns[c].req = conns[c].sid
        /\ conns[d].st = "ready" /\ conns[d].req \in DOMAIN sessions
        /\ sessions[conns[d].req].status = CLOSED
        /\ conns[d].sid \notin {NoSession, conns[d].req}

(* C6: a connected socket's handlers are registered by the time `session`    *)
(* is emitted, and `session` is the first event the socket is sent.          *)
SessionAnnouncedFirst ==
    \A c \in DOMAIN conns :
        LET out == conns[c].out IN
        /\ \A i \in DOMAIN out : out[i].type = "session" => i = 1 /\ conns[c].reg
        /\ conns[c].st \in {"history", "touch", "ready"} =>
                Len(out) >= 1 /\ out[1].type = "session"

(* a socket was sent `session`, then another socket's message, then history *)
AnnouncedThenBroadcast ==
    \E c \in DOMAIN conns :
        /\ Len(conns[c].out) >= 3
        /\ conns[c].out[1].type = "session"
        /\ conns[c].out[2].type = "message"
        /\ conns[c].out[3].type = "history"

(* C7: a socket is sent at most one `history` event, never an empty one, and *)
(* it is the event right after `session`.                                    *)
HistoryFollowsSession ==
    \A c \in DOMAIN conns :
        LET out == conns[c].out IN
        \A i \in DOMAIN out :
            out[i].type = "history" =>
                /\ i > 1
                /\ out[i - 1].type = "session"
                /\ out[i].arg > 0
                /\ \A j \in DOMAIN out : out[j].type = "history" => j = i

----------------------------------------------------------------------------
(* Claims about the cleanup job (SweepSpec) *)

InactiveAfterMs == cfg.heartbeatTimeoutSeconds * MsPerSecond

CloseAfterMs == cfg.sessionCloseMinutes * SecondsPerMinute * MsPerSecond

(* how long the row had been idle when the tick read the clock *)
IdleAtTick(s) == tick.now - tick.pre[s].last_active_at

TickDone == tick.pc = "done"

(* C8 as claimed: every session ACTIVE or INACTIVE and idle past the close   *)
(* threshold at a tick's snapshot is CLOSED when the tick completes.         *)
AgedClosedByTick ==
    TickDone =>
        \A s \in DOMAIN tick.pre :
            (tick.pre[s].status \in {ACTIVE, INACTIVE} /\ IdleAtTick(s) > CloseAfterMs)
                => sessions[s].status = CLOSED

(* C8, amended: the same of every session no other operation wrote since the *)
(* snapshot; and the two updates run again on the same snapshot change no    *)
(* row.                                                                      *)
AgedUntouchedClosedByTick ==
    TickDone =>
        /\ \A s \in DOMAIN tick.pre \ tick.dirty :
                (tick.pre[s].status \in {ACTIVE, INACTIVE} /\ IdleAtTick(s) > CloseAfterMs)
                    => sessions[s].status = CLOSED
        /\ SweepClose(SweepInactive(sessions)) = sessions

(* a tick closed one session that was ACTIVE and one that was INACTIVE *)
ClosedFromBothStatuses ==
    /\ TickDone
    /\ \E s, t \in DOMAIN tick.pre \ tick.dirty :
        /\ tick.pre[s].status = ACTIVE /\ sessions[s].status = CLOSED
        /\ tick.pre[t].status = INACTIVE /\ sessions[t].status = CLOSED

(* C9 as claimed: after a tick, a session that was ACTIVE and that nothing   *)
(* else wrote is INACTIVE if it was idle past the inactivity timeout but not *)
(* past the close threshold, and still ACTIVE if idle within the timeout.    *)
IdleFlippedActiveKept ==
    TickDone =>
        \A s \in DOMAIN tick.pre \ tick.dirty :
            tick.pre[s].status = ACTIVE =>
                /\ (IdleAtTick(s) > InactiveAfterMs /\ IdleAtTick(s) <= CloseAfterMs)
                        => sessions[s].status = INACTIVE
                /\ IdleAtTick(s) <= InactiveAfterMs => sessions[s].status = ACTIVE

(* C9, amended: still ACTIVE if idle within the timeout and within the close *)
(* threshold.                                                                *)
IdleFlippedFreshKept ==
    TickDone =>
        \A s \in DOMAIN tick.pre \ tick.dirty :
            tick.pre[s].status = ACTIVE =>
                /\ (IdleAtTick(s) > InactiveAfterMs /\ IdleAtTick(s) <= CloseAfterMs)
                        => sessions[s].status = INACTIVE
                /\ (IdleAtTick(s) <= InactiveAfterMs /\ IdleAtTick(s) <= CloseAfterMs)
                        => sessions[s].status = ACTIVE

(* one tick flipped a session idle for 120.001 s and kept one idle for less *)
FlippedOneKeptOne ==
    /\ TickDone
    /\ \E s, t \in DOMAIN tick.pre \ tick.dirty :
        /\ tick.pre[s].status = ACTIVE /\ sessions[s].status = INACTIVE
        /\ IdleAtTick(s) = InactiveAfterMs + 1
        /\ tick.pre[t].status = ACTIVE /\ sessions[t].status = ACTIVE
        /\ IdleAtTick(t) < IdleAtTick(s)

TickStep == tick.pc \in {"inactive", "close"} /\ tick'.pc # tick.pc

(* C10: an update of a tick leaves every CLOSED session as it is, and of any *)
(* session it changes the status alone; it adds no session and writes no     *)
(* message.                                                                  *)
TickWritesStatusOnly ==
    [][TickStep =>
          /\ DOMAIN sessions' = DOMAIN sessions
          /\ \A s \in DOMAIN sessions :
                /\ sessions[s].status = CLOSED => sessions'[s] = sessions[s]
                /\ sessions'[s].last_active_at = sessions[s].last_active_at
                /\ sessions'[s].visitor_id = sessions[s].visitor_id
          /\ messages' = messages]_vars

(* a tick changed one session and passed over one that was CLOSED and aged *)
ChangedOneSparedClosed ==
    /\ TickDone
    /\ \E s, t \in DOMAIN tick.pre \ tick.dirty :
        /\ tick.pre[s].status = CLOSED /\ IdleAtTick(s) > CloseAfterMs
        /\ tick.pre[t].status # CLOSED /\ sessions[t].status # tick.pre[t].status

----------------------------------------------------------------------------
(* Claims about the cleanup job's configuration (ConfigSpec) *)

InvalidValue(raw) == raw.kind = "text" \/ (raw.kind = "number" /\ raw.val < 0)

TickRan == tick.pc \in {"inactive", "close", "done", "failed"}

(* C11: when the inactivity timeout or the close threshold is configured    *)
(* with a value that is no number or is negative, no tick of the cleanup    *)
(* job ever runs.                                                           *)
InvalidConfigNeverTicks ==
    (InvalidValue(cfg.raw[1]) \/ InvalidValue(cfg.raw[2])) => ~TickRan

----------------------------------------------------------------------------
(* Claims about a failing tick (FailSpec) *)

(* C12: a tick whose update fails changes no session, writes no message and *)
(* emits to no socket from then on; nothing of it is run again: the tick    *)
(* leaves the failure only by the next tick starting, which reads the clock *)
(* itself; and every tick's two updates, the ones after a failure included, *)
(* are the bulk updates on the snapshot of that tick.                       *)
FailedTickAbandoned ==
    [][/\ (TickRunning /\ tick'.pc = "failed") =>
              /\ sessions' = sessions
              /\ messages' = messages
              /\ conns' = conns
       /\ (tick.pc = "failed" /\ tick'.pc # "failed") =>
              /\ tick'.pc = "inactive"
              /\ tick'.now = now
              /\ sessions' = sessions
       /\ (tick.pc = "inactive" /\ tick'.pc = "close") =>
              /\ conns' = conns
              /\ sessions' = [s \in DOMAIN sessions |->
                    IF /\ sessions[s].status = ACTIVE
                       /\ sessions[s].last_active_at < tick.now - InactiveAfterMs
                    THEN [sessions[s] EXCEPT !.status = INACTIVE] ELSE sessions[s]]
       /\ (tick.pc = "close" /\ tick'.pc = "done") =>
              /\ conns' = conns
              /\ sessions' = [s \in DOMAIN sessions |->
                    IF /\ sessions[s].status \in {ACTIVE, INACTIVE}
                       /\ sessions[s].last_active_at < tick.now - CloseAfterMs
                    THEN [sessions[s] EXCEPT !.status = CLOSED] ELSE sessions[s]]]_vars

(* a tick failed, and a later tick at a later instant closed the session of *)
(* a connected socket                                                       *)
TickAfterFailureClosed ==
    /\ Logged
    /\ tick.errors >= 1
    /\ tick.pc = "done"
    /\ tick.now > 0
    /\ \E c \in DOMAIN conns :
            /\ conns[c].st = "ready"
            /\ sessions[conns[c].sid].status = CLOSED

----------------------------------------------------------------------------
(* Claims about the events of a socket *)

Gone(e) == tasks[e].sid \notin DOMAIN sessions \/ sessions[tasks[e].sid].status = CLOSED

(* C13: a message event with content whose session is missing or CLOSED at  *)
(* the handler's lookup sends `status` to the sending socket and to no      *)
(* other, changes no session and persists nothing; the handler ends there:  *)
(* it has no reply of the responder, no message of its own, and it sends no *)
(* error.                                                                   *)
ClosedTargetRejected ==
    [][\A e \in DOMAIN tasks :
          /\ (tasks[e].kind = "msg" /\ tasks[e].pc = "find" /\ tasks'[e].pc # "find") =>
                IF Gone(e)
                THEN /\ tasks'[e] = [tasks[e] EXCEPT !.pc = "rejected"]
                     /\ sessions' = sessions
                     /\ messages' = messages
                     /\ \A c \in DOMAIN conns :
                            conns'[c] =
                                IF c = tasks[e].conn /\ conns[c].st \notin {"idle", "gone"}
                                THEN [conns[c] EXCEPT
                                        !.out = Append(@, [type |-> "status", arg |-> 0])]
                                ELSE conns[c]
                ELSE tasks'[e].pc = "user" /\ conns' = conns
          /\ (tasks[e].kind = "msg" /\ tasks[e].pc = "rejected") =>
                /\ tasks'[e] = tasks[e]
                /\ tasks[e].reply = "none"
                /\ \A i \in DOMAIN messages' : messages'[i].ev # e]_vars

(* two sockets in the room of a session since closed; the message of one    *)
(* was rejected, and only that one was sent `status`                        *)
RejectedSenderOnly ==
    \E e \in DOMAIN tasks : \E c, d \in DOMAIN conns :
        /\ c # d
        /\ tasks[e].kind = "msg" /\ tasks[e].pc = "rejected" /\ tasks[e].conn = c
        /\ tasks[e].sid \in DOMAIN sessions
        /\ tasks[e].sid \in conns[c].rooms \cap conns[d].rooms
        /\ \E i \in DOMAIN conns[c].out : conns[c].out[i].type = "status"
        /\ \A i \in DOMAIN conns[d].out : conns[d].out[i].type # "status"
        /\ \A i \in DOMAIN conns[c].out : conns[c].out[i].type # "error"

(* C14: when the endSession handler of an event with a resolvable id ends   *)
(* without a failure, the target session is CLOSED, a SYSTEM message has    *)
(* just been appended to it, the socket has been sent `sessionClosed` and   *)
(* has no bound session; and a message event that resolves no id sends      *)
(* `error` to its socket and persists nothing.                              *)
EndSessionClosesAndUnbinds ==
    [][\A e \in DOMAIN tasks :
          /\ (tasks[e].kind = "end" /\ tasks[e].pc = "system" /\ tasks'[e].pc = "done") =>
                LET c == tasks[e].conn
                    s == tasks[e].sid
                IN
                /\ sessions'[s].status = CLOSED
                /\ Len(messages') = Len(messages) + 1
                /\ messages'[Len(messages')].session_id = s
                /\ messages'[Len(messages')].role = SYSTEM
                /\ Len(conns'[c].out) = Len(conns[c].out) + 1
                /\ conns'[c].out[Len(conns'[c].out)] = [type |-> "sessionClosed", arg |-> s]
                /\ conns'[c].sid = NoSession
          /\ (tasks[e].pc = "free" /\ tasks'[e].kind = "msg" /\ tasks'[e].sid = NoSession) =>
                LET c == tasks'[e].conn IN
                /\ conns[c].sid = NoSession
                /\ conns'[c].out = Append(conns[c].out, [type |-> "error", arg |-> 0])
                /\ tasks'[e].pc = "noid"
                /\ messages' = messages
                /\ sessions' = sessions]_vars

Sent(out, type) == {i \in DOMAIN out : out[i].type = type}

(* C15: the step that persists a USER or BOT message appends one `message`  *)
(* event carrying it to every socket bound to the message's session, the    *)
(* sender included when it is bound to it, and nothing to a socket bound to *)
(* another session; no other step sends a `message` event.                  *)
BroadcastToBound ==
    [][\A c \in DOMAIN conns :
          LET n == Len(messages') IN
          IF Len(messages') = Len(messages) + 1 /\ messages'[n].role \in {USER, BOT}
          THEN /\ conns[c].sid = messages'[n].session_id =>
                    conns'[c].out = Append(conns[c].out, [type |-> "message", arg |-> n])
               /\ conns[c].sid \notin {messages'[n].session_id, NoSession} =>
                    conns'[c].out = conns[c].out
          ELSE Cardinality(Sent(conns'[c].out, "message")) =
                    Cardinality(Sent(conns[c].out, "message"))]_vars

(* a message event that named another session than its socket's: both its   *)
(* messages went to the socket bound to that session, none to the sender    *)
OverrideReachedOtherRoom ==
    \E e \in DOMAIN tasks : \E c, d \in DOMAIN conns :
        /\ tasks[e].kind = "msg" /\ tasks[e].pc = "done" /\ tasks[e].conn = c
        /\ conns[c].sid \notin {NoSession, tasks[e].sid}
        /\ conns[d].sid = tasks[e].sid
        /\ Cardinality(Sent(conns[d].out, "message")) = 2
        /\ Sent(conns[c].out, "message") = {}

(* C19: a message event whose content is empty after trimming, whether or   *)
(* not it resolves a session id, emits nothing to any socket, persists      *)
(* nothing and changes no session, and its handler ends there, before the   *)
(* responder.                                                               *)
EmptyContentDropped ==
    [][\A e \in DOMAIN tasks :
          /\ (tasks[e].pc = "free" /\ tasks'[e].kind = "msg" /\ tasks'[e].content = "empty") =>
                /\ conns' = conns
                /\ messages' = messages
                /\ sessions' = sessions
          /\ (tasks[e].kind = "msg" /\ tasks[e].content = "empty") =>
                /\ tasks'[e] = tasks[e]
                /\ tasks[e].reply = "none"]_vars

(* C17: whatever the responder call yields, a failure included, the handler *)
(* gets a string, the reply or on a failure the apology, and goes on to     *)
(* persist it as a BOT message of the session and to broadcast it; the step *)
(* that receives it emits nothing, so no error event.                       *)
ResponderFailureMasked ==
    [][\A e \in DOMAIN tasks :
          /\ (tasks[e].kind = "msg" /\ tasks[e].pc = "brain" /\ tasks'[e].pc # "brain") =>
                /\ tasks'[e].reply \in {"reply", "apology"}
                /\ tasks'[e].pc = "bot"
                /\ conns' = conns
          /\ (tasks[e].kind = "msg" /\ tasks[e].pc = "bot" /\ tasks'[e].pc # "bot") =>
                /\ tasks'[e].pc = "done"
                /\ messages' = Append(messages,
                        [session_id |-> tasks[e].sid, role |-> BOT, ev |-> e])
                /\ \A c \in DOMAIN conns :
                        tasks[e].sid \in conns[c].rooms =>
                            conns'[c].out = Append(conns[c].out,
                                [type |-> "message", arg |-> Len(messages')])]_vars

----------------------------------------------------------------------------
(* Claims about the history handed to the responder (HistorySpec) *)

Min(a, b) == IF a < b THEN a ELSE b

(* the last min(k, Len(log)) entries of log, in the order of log *)
TrailingWindow(log, k) == SubSeq(log, Len(log) - Min(k, Len(log)) + 1, Len(log))

(* C16: the history a message handler hands to the responder is the most    *)
(* recent min(50, n) messages of the session, ascending by creation, n      *)
(* counting the USER message the handler has just persisted.                *)
BrainGetsTrailingWindow ==
    \A e \in DOMAIN tasks :
        (tasks[e].kind = "msg" /\ tasks[e].pc \in {"brain", "bot"}) =>
            tasks[e].hist = TrailingWindow(SessionLog(tasks[e].sid), BrainHistoryLimit)

----------------------------------------------------------------------------
(* Claims about a failing handshake (FailSpec) *)

FailedConnect(c) == conns[c].st \in Awaiting /\ conns'[c].st = "gone"

(* C18 as claimed: a handshake whose store call fails, at whichever await,  *)
(* sends `error` to the socket and disconnects it, and leaves it no bound   *)
(* session id and no room.                                                  *)
FailedConnectUnbinds ==
    [][\A c \in DOMAIN conns :
          FailedConnect(c) =>
              /\ conns'[c].out = Append(conns[c].out, [type |-> "error", arg |-> 0])
              /\ conns'[c].rooms = {}
              /\ conns'[c].sid = NoSession]_vars

(* C18, amended: it sends `error`, disconnects the socket and leaves it no  *)
(* room; a failure of the session resolution leaves no bound session id,    *)
(* one of the later awaits leaves socket.data naming the session; the store *)
(* is not written by the failure, and a disconnected socket stays as it is. *)
FailedConnectLeavesRooms ==
    [][\A c \in DOMAIN conns :
          /\ FailedConnect(c) =>
                /\ conns'[c].out = Append(conns[c].out, [type |-> "error", arg |-> 0])
                /\ conns'[c].rooms = {}
                /\ conns'[c].sid =
                        IF conns[c].st \in {"findReq", "findVis", "create"}
                        THEN NoSession ELSE conns[c].session
                /\ sessions' = sessions
                /\ messages' = messages
          /\ conns[c].st = "gone" => conns'[c] = conns[c]]_vars

(* a socket disconnected by a failure after it had joined a room and been   *)
(* sent `session`                                                           *)
FailedAfterAnnounce ==
    \E c \in DOMAIN conns :
        /\ conns[c].st = "gone"
        /\ conns[c].rooms = {}
        /\ conns[c].session # NoSession
        /\ Len(conns[c].out) >= 2
        /\ conns[c].out[1].type = "session"
        /\ conns[c].out[Len(conns[c].out)].type = "error"

----------------------------------------------------------------------------
(* Claims about heartbeats (BeatSpec) *)

(* C20: a heartbeat event emits nothing to any socket, leaves the sockets   *)
(* as they are and persists no message; one whose id resolves to a session  *)
(* that is ACTIVE or INACTIVE, the update succeeding, leaves that session   *)
(* ACTIVE with last-activity the time of the heartbeat and every other      *)
(* session as it was; one whose update fails changes no session and is      *)
(* logged, no more.                                                         *)
HeartbeatRefreshes ==
    [][tick'.beats = tick.beats + 1 =>
          LET b == tick'.beat IN
          /\ conns' = conns
          /\ messages' = messages
          /\ tasks' = tasks
          /\ (/\ b.sid \in DOMAIN sessions
              /\ sessions[b.sid].status \in {ACTIVE, INACTIVE}
              /\ ~b.failed) =>
                sessions' = [sessions EXCEPT ![b.sid] =
                    [visitor_id |-> @.visitor_id, status |-> ACTIVE, last_active_at |-> now]]
          /\ b.failed => sessions' = sessions /\ tick'.warns = tick.warns + 1]_vars

(* after a heartbeat that failed, a heartbeat of the same socket refreshed   *)
(* its session while a tick was between its two updates                      *)
RefreshedAfterFailure ==
    /\ Counted
    /\ tick.beats = 2
    /\ tick.warns = 1
    /\ ~tick.beat.failed
    /\ tick.beat.sid \in DOMAIN sessions
    /\ tick.pc = "close"
    /\ now > 0
    /\ sessions[tick.beat.sid] =
            [visitor_id |-> conns[tick.beat.conn].visitor, status |-> ACTIVE,
             last_active_at |-> now]

(* C21: a heartbeat or an endSession event that resolves no id, its socket  *)
(* having no bound session and the event naming none, creates and changes   *)
(* no session and no message and emits nothing to any socket; its handler   *)
(* ends there.                                                              *)
UnboundEventsNoOp ==
    [][/\ (tick'.beats = tick.beats + 1 /\ tick'.beat.sid = NoSession) =>
              /\ conns[tick'.beat.conn].sid = NoSession
              /\ sessions' = sessions
              /\ messages' = messages
              /\ conns' = conns
              /\ tasks' = tasks
       /\ \A e \in DOMAIN tasks :
              /\ (tasks[e].pc = "free" /\ tasks'[e].kind = "end" /\ tasks'[e].sid = NoSession) =>
                    /\ conns[tasks'[e].conn].sid = NoSession
                    /\ tasks'[e].pc = "noid"
                    /\ sessions' = sessions
                    /\ messages' = messages
                    /\ conns' = conns
              /\ (tasks[e].kind = "end" /\ tasks[e].pc = "noid") => tasks'[e] = tasks[e]]_vars

(* a socket unbound by an endSession sent a second endSession and then a    *)
(* heartbeat, neither naming a session                                      *)
UnboundEventsHandled ==
    /\ Counted
    /\ tick.beats >= 1
    /\ tick.beat.sid = NoSession
    /\ \E e, f \in DOMAIN tasks :
            /\ tasks[e].kind = "end" /\ tasks[e].pc = "done"
            /\ tasks[f].kind = "end" /\ tasks[f].pc = "noid"
            /\ tasks[f].conn = tick.beat.conn
            /\ conns[tasks[f].conn].sid = NoSession
            /\ conns[tasks[f].conn].reg

BotOf(e) ==
    {i \in DOMAIN messages :
        messages[i].ev = e /\ messages[i].role = BOT /\ messages[i].session_id = tasks[e].sid}

AwaitingResponderGone(e) ==
    /\ e \in DOMAIN tasks
    /\ tasks[e].kind = "msg" /\ tasks[e].pc = "brain"
    /\ conns[tasks[e].conn].st = "gone"

ReplyPersisted(e) ==
    /\ e \in DOMAIN tasks
    /\ BotOf(e) # {} \/ tasks[e].reply = "number"

(* C22: a message event awaiting the responder whose socket has             *)
(* disconnected is not cancelled: the call returns and, unless its output   *)
(* is no text, the reply is persisted as a BOT message of the session.      *)
DisconnectKeepsReply ==
    \A e \in 1..MaxEvents : AwaitingResponderGone(e) ~> ReplyPersisted(e)

(* the reply persisted for a socket that received the USER message of its   *)
(* event and was gone before the BOT message was broadcast                  *)
ReplyPersistedAfterDisconnect ==
    \E e \in DOMAIN tasks :
        LET out == conns[tasks[e].conn].out IN
        /\ tasks[e].kind = "msg" /\ tasks[e].pc = "done"
        /\ conns[tasks[e].conn].st = "gone"
        /\ BotOf(e) # {}
        /\ \E i \in Sent(out, "message") : out[i].arg = IndexOf(e, USER)
        /\ \A i \in Sent(out, "message") : out[i].arg \notin BotOf(e)

HasMessage(e, role) == \E i \in DOMAIN messages : messages[i].ev = e /\ messages[i].role = role

(* C23: of two message events received on one socket for one session, the   *)
(* earlier has its USER message persisted before the USER message of the    *)
(* later, and its BOT message before the BOT message of the later.          *)
RepliesInArrivalOrder ==
    \A e, f \in DOMAIN tasks :
        (/\ e < f
         /\ tasks[e].kind = "msg" /\ tasks[f].kind = "msg"
         /\ tasks[e].conn = tasks[f].conn
         /\ tasks[e].sid = tasks[f].sid) =>
            \A role \in {USER, BOT} :
                (HasMessage(e, role) /\ HasMessage(f, role)) =>
                    IndexOf(e, role) < IndexOf(f, role)

(* C24: a handshake that found no session of its visitor creates one        *)
(* whatever the store holds by then: the create follows the lookup with no  *)
(* second look, so two handshakes of one visitor that both looked before    *)
(* either created leave the visitor two sessions that are not CLOSED.       *)
CreateFollowsLookupUnchecked ==
    [][\A c \in DOMAIN conns :
          (conns[c].st = "create" /\ conns'[c].st # "create") =>
              /\ sessions' = Append(sessions, NewSession(conns[c].visitor))
              /\ conns'[c].sid = Len(sessions')
              /\ conns'[c].sid \notin NonClosedOf(conns[c].visitor)]_vars

(* two sockets of one visitor, neither requesting a session, bound to two   *)
(* sessions of the visitor that are both not CLOSED                         *)
TwoOpenSessionsOfOneVisitor ==
    \E c, d \in DOMAIN conns :
        /\ c # d
        /\ conns[c].visitor = conns[d].visitor
        /\ conns[c].req = NoSession /\ conns[d].req = NoSession
        /\ conns[c].sid # NoSession /\ conns[d].sid # NoSession
        /\ conns[c].sid # conns[d].sid
        /\ {conns[c].sid, conns[d].sid} \subseteq NonClosedOf(conns[c].visitor)

SystemOf(s) == {i \in DOMAIN messages : messages[i].session_id = s /\ messages[i].role = SYSTEM}

(* C25: an endSession event whose session is CLOSED already appends no      *)
(* further SYSTEM message and sends no further sessionClosed: a session     *)
(* holds at most one SYSTEM message, and a socket is sent sessionClosed of  *)
(* a session at most once.                                                  *)
EndSessionIdempotent ==
    /\ \A s \in SessionIds : Cardinality(SystemOf(s)) <= 1
    /\ \A c \in DOMAIN conns : \A s \in SessionIds :
            Cardinality({i \in Sent(conns[c].out, "sessionClosed") : conns[c].out[i].arg = s}) <= 1

(* C26: a connected socket past the binding of its handshake is in the room *)
(* of session s exactly when its bound session id is s.                     *)
RoomIffBound ==
    \A c \in DOMAIN conns :
        Listening(c) =>
            conns[c].rooms = IF conns[c].sid = NoSession THEN {} ELSE {conns[c].sid}

RoleCount(log, s, role) ==
    Cardinality({i \in DOMAIN log : log[i].session_id = s /\ log[i].role = role})

(* every BOT message of the log follows a USER message of its session made  *)
(* by the same event                                                        *)
BotsFollowUsers(log) ==
    \A i \in DOMAIN log :
        log[i].role = BOT =>
            \E j \in 1..(i - 1) :
                /\ log[j].role = USER
                /\ log[j].ev = log[i].ev
                /\ log[j].session_id = log[i].session_id

(* C27: the message log only grows, no step changing or removing a message  *)
(* it holds, and after every step each session has at most as many BOT      *)
(* messages as USER messages, each BOT message following the USER message   *)
(* of the event that caused it.                                             *)
LogAppendOnly ==
    [][/\ Len(messages') >= Len(messages)
       /\ SubSeq(messages', 1, Len(messages)) = messages
       /\ \A s \in DOMAIN sessions' :
              RoleCount(messages', s, BOT) <= RoleCount(messages', s, USER)
       /\ BotsFollowUsers(messages')]_vars

(* a session holding the USER message of a socket's event, a USER message   *)
(* posted over REST and the BOT message replying to the first               *)
LogOfBothWriters ==
    \E e, f \in DOMAIN tasks :
        /\ tasks[e].kind = "msg" /\ tasks[e].pc = "done"
        /\ tasks[f].kind = "rest" /\ tasks[f].pc = "done"
        /\ tasks[e].sid = tasks[f].sid
        /\ RoleCount(messages, tasks[e].sid, BOT) = 1
        /\ RoleCount(messages, tasks[e].sid, USER) = 2
        /\ IndexOf(f, USER) < IndexOf(e, BOT)

=============================================================================
